---- MODULE Spec2Model ----
(***************************************************************************)
(* Model of the HTML-to-Markdown/text pipeline of                          *)
(* local-playground/enhanced-html-processor.ts (processHtml,               *)
(* prepareDomForTurndown, cleanRedundantEmptyLines) and of its minimal     *)
(* variant.  Strings are sequences of one-character strings.               *)
(***************************************************************************)
EXTENDS Integers, Sequences, FiniteSets, TLC

\* ------------------------------------------------------------------------
\* Bounds
\* ------------------------------------------------------------------------
MaxLen ==
  6

\* ------------------------------------------------------------------------
\* Strings
\* ------------------------------------------------------------------------
\* Characters String.prototype.trim() and the regex class \s treat as blank.
IsWhitespace(c) ==
  c \in {" ", "\t", "\r", "\n"}

\* Boolean(line.trim()): the line has a character that trim() keeps.
IsSignificant(line) ==
  \E i \in 1..Len(line) : ~IsWhitespace(line[i])

\* text.split(/\r?\n/g): a separator is "\n", or "\r\n" when the "\r"
\* immediately precedes the "\n"; any other "\r" stays inside its line.
SplitLines(s) ==
  LET newlines == SelectSeq([i \in 1..Len(s) |-> i], LAMBDA i : s[i] = "\n")
      from(k) == IF k = 1 THEN 1 ELSE newlines[k - 1] + 1
      to(k) == IF k > Len(newlines) THEN Len(s)
               ELSE IF newlines[k] > from(k) /\ s[newlines[k] - 1] = "\r"
                    THEN newlines[k] - 2
               ELSE newlines[k] - 1
  IN [k \in 1..(Len(newlines) + 1) |-> SubSeq(s, from(k), to(k))]

\* lines.join('\n')
RECURSIVE JoinLines(_)
JoinLines(lines) ==
  IF Len(lines) = 0 THEN <<>>
  ELSE IF Len(lines) = 1 THEN lines[1]
  ELSE lines[1] \o <<"\n">> \o JoinLines(Tail(lines))

\* A filter that keeps every line after the first significant-or-not test
\* of the line alone is dropped: blank lines survive whenever they are not
\* the first line.
KeepLineNoCollapse(mappedFlag, i) ==
  mappedFlag[i] \/ i > 1

\* The filter predicate: mappedFlag[i] || mappedFlag[i - 1], where
\* mappedFlag[-1] is undefined (falsy).
KeepLine(mappedFlag, i) ==
  mappedFlag[i] \/ (i > 1 /\ mappedFlag[i - 1])

RECURSIVE FilterLines(_, _, _)
FilterLines(lines, mappedFlag, i) ==
  IF i > Len(lines) THEN <<>>
  ELSE (IF KeepLine(mappedFlag, i) THEN <<lines[i]>> ELSE <<>>)
       \o FilterLines(lines, mappedFlag, i + 1)

cleanRedundantEmptyLines(text) ==
  LET lines == SplitLines(text)
      mappedFlag == [i \in 1..Len(lines) |-> IsSignificant(lines[i])]
  IN JoinLines(FilterLines(lines, mappedFlag, 1))

\* ------------------------------------------------------------------------
\* More string helpers
\* ------------------------------------------------------------------------
StartsWith(s, prefix) ==
  /\ Len(s) >= Len(prefix)
  /\ SubSeq(s, 1, Len(prefix)) = prefix

RECURSIVE Concat(_)
Concat(seqs) ==
  IF Len(seqs) = 0 THEN <<>> ELSE Head(seqs) \o Concat(Tail(seqs))

\* String.prototype.trim()
RECURSIVE TrimLeft(_)
TrimLeft(s) ==
  IF Len(s) > 0 /\ IsWhitespace(s[1]) THEN TrimLeft(Tail(s)) ELSE s

RECURSIVE TrimRight(_)
TrimRight(s) ==
  IF Len(s) > 0 /\ IsWhitespace(s[Len(s)])
  THEN TrimRight(SubSeq(s, 1, Len(s) - 1)) ELSE s

Trim(s) ==
  TrimRight(TrimLeft(s))

\* s.replace(/\s+/g, ' '): every maximal run of whitespace becomes one space.
CollapseWhitespace(s) ==
  LET kept == SelectSeq([i \in 1..Len(s) |-> i], LAMBDA i :
                ~IsWhitespace(s[i]) \/ i = 1 \/ ~IsWhitespace(s[i - 1]))
  IN [k \in 1..Len(kept) |->
        IF IsWhitespace(s[kept[k]]) THEN " " ELSE s[kept[k]]]

\* s.replace(/\s+/g, ''): whitespace removed.
StripWhitespace(s) ==
  SelectSeq(s, LAMBDA c : ~IsWhitespace(c))

UpperLetters ==
  <<"A", "B", "C", "D", "E", "F", "G", "H", "I", "J", "K", "L", "M",
    "N", "O", "P", "Q", "R", "S", "T", "U", "V", "W", "X", "Y", "Z">>

LowerLetters ==
  <<"a", "b", "c", "d", "e", "f", "g", "h", "i", "j", "k", "l", "m",
    "n", "o", "p", "q", "r", "s", "t", "u", "v", "w", "x", "y", "z">>

IsUpper(c) ==
  \E i \in 1..26 : UpperLetters[i] = c

IsAlpha(c) ==
  \E i \in 1..26 : UpperLetters[i] = c \/ LowerLetters[i] = c

ToLowerChar(c) ==
  IF IsUpper(c) THEN LowerLetters[CHOOSE i \in 1..26 : UpperLetters[i] = c] ELSE c

\* String.prototype.toLowerCase()
ToLowerCase(s) ==
  [i \in 1..Len(s) |-> ToLowerChar(s[i])]

\* Index of the first occurrence of c in s at or after position i, else 0.
RECURSIVE IndexOfFrom(_, _, _)
IndexOfFrom(s, c, i) ==
  IF i > Len(s) THEN 0
  ELSE IF s[i] = c THEN i
  ELSE IndexOfFrom(s, c, i + 1)

\* Index of the last occurrence of c in s, else 0.
RECURSIVE LastIndexOf(_, _, _)
LastIndexOf(s, c, i) ==
  IF i < 1 THEN 0
  ELSE IF s[i] = c THEN i
  ELSE LastIndexOf(s, c, i - 1)

\* ------------------------------------------------------------------------
\* new URL(input, base).toString(), for the URL shapes the pipeline meets:
\* absolute URLs with a scheme, path-absolute and path-relative references.
\* A result with ok = FALSE stands for the TypeError the constructor throws.
\* ------------------------------------------------------------------------
NoBase ==
  <<>>

SchemeHttp ==
  <<"h", "t", "t", "p">>

SchemeHttps ==
  <<"h", "t", "t", "p", "s">>

SchemeFile ==
  <<"f", "i", "l", "e">>

SchemeJavascript ==
  <<"j", "a", "v", "a", "s", "c", "r", "i", "p", "t">>

\* Length of the scheme of s (the letters before the first ":"), or 0 when s
\* does not begin with a scheme.
SchemeLen(s) ==
  LET Before(colon) ==
        IF colon > 1 /\ \A i \in 1..(colon - 1) : IsAlpha(s[i])
        THEN colon - 1 ELSE 0
  IN Before(IndexOfFrom(s, ":", 1))

RECURSIVE SkipSlashes(_)
SkipSlashes(s) ==
  IF Len(s) > 0 /\ s[1] = "/" THEN SkipSlashes(Tail(s)) ELSE s

UrlFailure ==
  [ok |-> FALSE, scheme |-> <<>>, host |-> <<>>, path |-> <<>>, special |-> FALSE]

\* Parses an input that carries its own scheme.
ParseAbsoluteUrl(s) ==
  LET Parts(scheme, host, path) ==
        IF Len(host) = 0 \/ \E i \in 1..Len(host) : IsWhitespace(host[i])
        THEN UrlFailure
        ELSE [ok |-> TRUE, scheme |-> scheme, host |-> ToLowerCase(host),
              path |-> path, special |-> TRUE]
      Authority(scheme, auth, slash) ==
        Parts(scheme,
              IF slash = 0 THEN auth ELSE SubSeq(auth, 1, slash - 1),
              IF slash = 0 THEN <<"/">> ELSE SubSeq(auth, slash, Len(auth)))
      Special(scheme, auth) ==
        Authority(scheme, auth, IndexOfFrom(auth, "/", 1))
      Split(scheme, rest) ==
        IF scheme \in {SchemeHttp, SchemeHttps}
        THEN Special(scheme, SkipSlashes(rest))
        ELSE [ok |-> TRUE, scheme |-> scheme, host |-> <<>>, path |-> rest,
              special |-> FALSE]
      At(n) ==
        Split(ToLowerCase(SubSeq(s, 1, n)), SubSeq(s, n + 2, Len(s)))
  IN At(SchemeLen(s))

UrlToString(u) ==
  IF u.special THEN u.scheme \o <<":", "/", "/">> \o u.host \o u.path
  ELSE u.scheme \o <<":">> \o u.path

\* Parses input against base; base = NoBase stands for a call without base.
ParseUrl(input, base) ==
  LET Relative(s, b) ==
        IF Len(s) = 0 THEN b
        ELSE IF s[1] = "/" THEN [b EXCEPT !.path = s]
        ELSE [b EXCEPT !.path =
                SubSeq(b.path, 1, LastIndexOf(b.path, "/", Len(b.path))) \o s]
      Against(s, hasScheme, b) ==
        IF base # NoBase /\ (~b.ok \/ ~b.special) THEN UrlFailure
        ELSE IF hasScheme THEN ParseAbsoluteUrl(s)
        ELSE IF base = NoBase THEN UrlFailure
        ELSE Relative(s, b)
      Parse(s, b) ==
        Against(s, SchemeLen(s) > 0,
                IF base = NoBase \/ SchemeLen(b) = 0 THEN UrlFailure
                ELSE ParseAbsoluteUrl(b))
  IN Parse(Trim(input), Trim(base))

\* Outcome of `new URL(input, base).toString()`.
ResolveUrl(input, base) ==
  LET Outcome(u) ==
        IF u.ok THEN [ok |-> TRUE, url |-> UrlToString(u)]
        ELSE [ok |-> FALSE, url |-> <<>>]
  IN Outcome(ParseUrl(input, base))

\* ------------------------------------------------------------------------
\* Markup and trees.  Markup (an html string) is a sequence of tokens; a
\* tree is the sequence of its nodes in document order, each naming its
\* parent by id (0 is the document itself).
\* ------------------------------------------------------------------------
NoAttrs ==
  [n \in {} |-> <<>>]

Open(tag, attrs) ==
  [t |-> "open", tag |-> tag, attrs |-> attrs, data |-> <<>>]

Close(tag) ==
  [t |-> "close", tag |-> tag, attrs |-> NoAttrs, data |-> <<>>]

Text(data) ==
  [t |-> "text", tag |-> "", attrs |-> NoAttrs, data |-> data]

Comment(data) ==
  [t |-> "comment", tag |-> "", attrs |-> NoAttrs, data |-> data]

Node(id, parent, kind, tag, attrs, data) ==
  [id |-> id, parent |-> parent, kind |-> kind, tag |-> tag,
   attrs |-> attrs, data |-> data]

\* Elements the parser closes as soon as it has opened them.
VoidTags ==
  {"img", "meta", "link", "br"}

HasAttr(n, name) ==
  n.kind = "element" /\ name \in DOMAIN n.attrs

\* el.getAttribute(name), with <<>> standing for null as well as for "".
GetAttr(n, name) ==
  IF HasAttr(n, name) THEN n.attrs[name] ELSE <<>>

SetAttr(n, name, value) ==
  [n EXCEPT !.attrs = [k \in DOMAIN n.attrs \cup {name} |->
                         IF k = name THEN value ELSE n.attrs[k]]]

RemoveAttrs(n, names) ==
  [n EXCEPT !.attrs = [k \in DOMAIN n.attrs \ names |-> n.attrs[k]]]

Ids(nodes) ==
  {nodes[i].id : i \in 1..Len(nodes)}

NodeById(nodes, id) ==
  nodes[CHOOSE i \in 1..Len(nodes) : nodes[i].id = id]

RECURSIVE MaxId(_)
MaxId(nodes) ==
  IF Len(nodes) = 0 THEN 0
  ELSE LET m == MaxId(Tail(nodes))
       IN IF Head(nodes).id > m THEN Head(nodes).id ELSE m

\* TRUE when anc is a proper ancestor of the node id within nodes.
RECURSIVE HasAncestor(_, _, _)
HasAncestor(nodes, id, anc) ==
  LET p == NodeById(nodes, id).parent
  IN \/ p = anc
     \/ (p \in Ids(nodes) /\ HasAncestor(nodes, p, anc))

InSubtree(nodes, id, root) ==
  id = root \/ HasAncestor(nodes, id, root)

\* parseHTML of a fragment: the nodes the tokens give, as children of the
\* node `parent`, numbered from nextId on.
RECURSIVE ParseTokens(_, _, _, _)
ParseTokens(tokens, i, stack, nextId) ==
  IF i > Len(tokens) THEN <<>>
  ELSE LET tk == tokens[i]
           parent == stack[Len(stack)]
       IN IF tk.t = "open"
          THEN <<Node(nextId, parent, "element", tk.tag, tk.attrs, <<>>)>>
               \o ParseTokens(tokens, i + 1,
                              IF tk.tag \in VoidTags THEN stack
                              ELSE Append(stack, nextId),
                              nextId + 1)
          ELSE IF tk.t = "close"
          THEN ParseTokens(tokens, i + 1,
                           IF Len(stack) > 1
                           THEN SubSeq(stack, 1, Len(stack) - 1) ELSE stack,
                           nextId)
          ELSE <<Node(nextId, parent, tk.t, "", NoAttrs, tk.data)>>
               \o ParseTokens(tokens, i + 1, stack, nextId + 1)

ParseFragment(tokens, parent, nextId) ==
  ParseTokens(tokens, 1, <<parent>>, nextId)

\* The html, head and body elements every parsed document has.
Skeleton(firstId) ==
  <<Node(firstId, 0, "element", "html", NoAttrs, <<>>),
    Node(firstId + 1, firstId, "element", "head", NoAttrs, <<>>),
    Node(firstId + 2, firstId, "element", "body", NoAttrs, <<>>)>>

\* parseHTML(markup).window.document, the markup being body content.
parseHTML(markup, firstId) ==
  Skeleton(firstId) \o ParseFragment(markup, firstId + 2, firstId + 3)

\* document.body
Body(nodes) ==
  (CHOOSE i \in 1..Len(nodes) : nodes[i].tag = "body" /\ nodes[i].kind = "element")

BodyId(nodes) ==
  nodes[Body(nodes)].id

Children(nodes, id) ==
  SelectSeq(nodes, LAMBDA n : n.parent = id)

\* el.innerHTML (read): the markup of the children of the node id.
RECURSIVE SerializeNode(_, _)
RECURSIVE SerializeSeq(_, _)
SerializeNode(nodes, n) ==
  IF n.kind = "element"
  THEN <<Open(n.tag, n.attrs)>>
       \o SerializeSeq(nodes, Children(nodes, n.id))
       \o (IF n.tag \in VoidTags THEN <<>> ELSE <<Close(n.tag)>>)
  ELSE IF n.kind = "text" THEN <<Text(n.data)>>
  ELSE <<Comment(n.data)>>

SerializeSeq(nodes, kids) ==
  IF Len(kids) = 0 THEN <<>>
  ELSE SerializeNode(nodes, Head(kids)) \o SerializeSeq(nodes, Tail(kids))

InnerHTML(nodes, id) ==
  SerializeSeq(nodes, Children(nodes, id))

\* el.textContent: the data of the text nodes below id, in document order.
TextContent(nodes, id) ==
  Concat([i \in 1..Len(nodes) |->
            IF nodes[i].kind = "text" /\ HasAncestor(nodes, nodes[i].id, id)
            THEN nodes[i].data ELSE <<>>])

\* el.remove(): the node and everything below it leave the tree.
RemoveNode(nodes, id) ==
  IF id \notin Ids(nodes) THEN nodes
  ELSE SelectSeq(nodes, LAMBDA n : ~InSubtree(nodes, n.id, id))

RECURSIVE RemoveAll(_, _)
RemoveAll(nodes, ids) ==
  IF Len(ids) = 0 THEN nodes
  ELSE RemoveAll(RemoveNode(nodes, Head(ids)), Tail(ids))

\* el.innerHTML = markup: the children of id are replaced by the parsed
\* markup.  A node no longer in the tree is changed out of sight.
SetInnerHTML(nodes, id, markup) ==
  IF id \notin Ids(nodes) THEN nodes
  ELSE LET kept == SelectSeq(nodes, LAMBDA n : ~HasAncestor(nodes, n.id, id))
           at == CHOOSE i \in 1..Len(kept) : kept[i].id = id
       IN SubSeq(kept, 1, at)
          \o ParseFragment(markup, id, MaxId(nodes) + 1)
          \o SubSeq(kept, at + 1, Len(kept))

\* ------------------------------------------------------------------------
\* Selectors.  querySelectorAll raises a SyntaxError on a string that is
\* not a selector; ok = FALSE stands for that exception.
\* ------------------------------------------------------------------------
ClassAd ==
  <<"a", "d">>

ClassMain ==
  <<"m", "a", "i", "n">>

RelStylesheet ==
  <<"s", "t", "y", "l", "e", "s", "h", "e", "e", "t">>

ValueTrue ==
  <<"t", "r", "u", "e">>

InvalidSelector ==
  "div["

IsValidSelector(sel) ==
  sel # InvalidSelector /\ sel # ""

MatchesSelector(n, sel) ==
  /\ n.kind = "element"
  /\ CASE sel = "*" -> TRUE
       [] sel = ".ad" -> GetAttr(n, "class") = ClassAd
       [] sel = ".main" -> GetAttr(n, "class") = ClassMain
       [] sel = ".none" -> FALSE
       [] sel = "link[rel=\"stylesheet\"]" ->
            n.tag = "link" /\ GetAttr(n, "rel") = RelStylesheet
       [] sel = "[data-shadow-host=\"true\"]" ->
            GetAttr(n, "data-shadow-host") = ValueTrue
       [] sel = "iframe[src]" -> n.tag = "iframe" /\ HasAttr(n, "src")
       [] sel = "frame[src]" -> n.tag = "frame" /\ HasAttr(n, "src")
       [] sel = "a[href]" -> n.tag = "a" /\ HasAttr(n, "href")
       [] sel = "[src]" -> HasAttr(n, "src")
       [] sel = "[href]" -> HasAttr(n, "href")
       [] sel = "[style]" -> HasAttr(n, "style")
       [] OTHER -> n.tag = sel

\* Ids of the elements of nodes, below scope (0: the whole document), that
\* match one selector of the comma-separated group sels, in document order.
Matching(nodes, scope, sels) ==
  LET hits == SelectSeq(nodes, LAMBDA n :
                /\ scope = 0 \/ HasAncestor(nodes, n.id, scope)
                /\ \E k \in 1..Len(sels) : MatchesSelector(n, sels[k]))
  IN [i \in 1..Len(hits) |-> hits[i].id]

querySelectorAll(nodes, sel) ==
  IF IsValidSelector(sel)
  THEN [ok |-> TRUE, ids |-> Matching(nodes, 0, <<sel>>)]
  ELSE [ok |-> FALSE, ids |-> <<>>]

\* ------------------------------------------------------------------------
\* Embedded-content inlining
\* ------------------------------------------------------------------------
ReplaceNode(nodes, id, n) ==
  [i \in 1..Len(nodes) |-> IF nodes[i].id = id THEN n ELSE nodes[i]]

\* hosts.forEach: the innerHTML of every shadow host that carries
\* data-shadow-content becomes that content.
RECURSIVE InlineShadowHosts(_, _)
InlineShadowHosts(nodes, hosts) ==
  IF Len(hosts) = 0 THEN nodes
  ELSE LET host == Head(hosts)
           shadowContent == IF host \in Ids(nodes)
                            THEN GetAttr(NodeById(nodes, host), "data-shadow-content")
                            ELSE <<>>
       IN InlineShadowHosts(
            IF Len(shadowContent) > 0
            THEN SetInnerHTML(nodes, host, shadowContent) ELSE nodes,
            Tail(hosts))

ProcessShadowDom(nodes, withShadowDom) ==
  IF withShadowDom
  THEN InlineShadowHosts(nodes, Matching(nodes, 0, <<"[data-shadow-host=\"true\"]">>))
  ELSE nodes

\* !value.match(/^(https?:)?\/\//)
IsRelativeReference(value) ==
  ~(\/ StartsWith(value, <<"/", "/">>)
    \/ StartsWith(value, SchemeHttp \o <<":", "/", "/">>)
    \/ StartsWith(value, SchemeHttps \o <<":", "/", "/">>))

\* The attribute `name` of every listed element is rewritten to the URL it
\* resolves to against src; a value that does not resolve is kept.
RECURSIVE FixRelativeUrls(_, _, _, _)
FixRelativeUrls(nodes, ids, name, src) ==
  IF Len(ids) = 0 THEN nodes
  ELSE LET el == NodeById(nodes, Head(ids))
           value == GetAttr(el, name)
           resolved == ResolveUrl(value, src)
       IN FixRelativeUrls(
            IF Len(value) > 0 /\ IsRelativeReference(value) /\ resolved.ok
            THEN ReplaceNode(nodes, el.id, SetAttr(el, name, resolved.url))
            ELSE nodes,
            Tail(ids), name, src)

\* The body of the forEach over the frames, for one frame.
InlineFrame(nodes, iframe, baseUrl) ==
  LET frameContent == GetAttr(NodeById(nodes, iframe), "data-frame-content")
      src == GetAttr(NodeById(nodes, iframe), "src")
      filled == SetInnerHTML(nodes, iframe, frameContent)
      cleaned == RemoveAll(filled, Matching(filled, iframe, <<"script", "style">>))
      srcFixed == FixRelativeUrls(cleaned, Matching(cleaned, iframe, <<"[src]">>),
                                  "src", src)
  IN IF Len(frameContent) = 0 THEN nodes
     ELSE IF Len(src) > 0 /\ baseUrl # NoBase
     THEN FixRelativeUrls(srcFixed, Matching(srcFixed, iframe, <<"[href]">>),
                          "href", src)
     ELSE cleaned

RECURSIVE InlineFrames(_, _, _)
InlineFrames(nodes, frames, baseUrl) ==
  IF Len(frames) = 0 THEN nodes
  ELSE InlineFrames(
         IF Head(frames) \in Ids(nodes)
         THEN InlineFrame(nodes, Head(frames), baseUrl) ELSE nodes,
         Tail(frames), baseUrl)

ProcessIframes(nodes, withIframe, baseUrl) ==
  IF withIframe
  THEN InlineFrames(nodes, Matching(nodes, 0, <<"iframe[src]", "frame[src]">>), baseUrl)
  ELSE nodes

\* ------------------------------------------------------------------------
\* Link harvesting
\* ------------------------------------------------------------------------
PrefixJavascript ==
  SchemeJavascript \o <<":">>

PrefixFile ==
  SchemeFile \o <<":">>

\* href.startsWith('javascript:') || href.startsWith('file:')
IsRejectedHref(href) ==
  StartsWith(href, PrefixJavascript) \/ StartsWith(href, PrefixFile)

\* A harvester that falls back to the raw href when resolution fails.
LinkOfKeepOriginal(nodes, x, baseUrl) ==
  LET text == Trim(CollapseWhitespace(TextContent(nodes, x.id)))
      href == GetAttr(x, "href")
      resolved == IF baseUrl # NoBase THEN ResolveUrl(href, baseUrl)
                  ELSE [ok |-> TRUE, url |-> href]
  IN IF Len(href) = 0 THEN [null |-> TRUE, pair |-> <<>>]
     ELSE IF StartsWith(href, SchemeJavascript \o <<":">>)
             \/ StartsWith(href, SchemeFile \o <<":">>)
     THEN [null |-> TRUE, pair |-> <<>>]
     ELSE IF resolved.ok THEN [null |-> FALSE, pair |-> <<text, resolved.url>>]
     ELSE [null |-> FALSE, pair |-> <<text, href>>]

\* The callback of .map(): the [text, url] pair of one anchor, or null.
LinkOf(nodes, x, baseUrl) ==
  LET text == Trim(CollapseWhitespace(TextContent(nodes, x.id)))
      href == GetAttr(x, "href")
      resolved == IF baseUrl # NoBase THEN ResolveUrl(href, baseUrl)
                  ELSE [ok |-> TRUE, url |-> href]
  IN IF Len(href) = 0 THEN [null |-> TRUE, pair |-> <<>>]
     ELSE IF IsRejectedHref(href) THEN [null |-> TRUE, pair |-> <<>>]
     ELSE IF resolved.ok THEN [null |-> FALSE, pair |-> <<text, resolved.url>>]
     ELSE [null |-> TRUE, pair |-> <<>>]

\* Array.from(querySelectorAll('a[href]')).map(...).filter(Boolean)
RECURSIVE MapFilterLinks(_, _, _)
MapFilterLinks(nodes, anchors, baseUrl) ==
  IF Len(anchors) = 0 THEN <<>>
  ELSE LET entry == LinkOf(nodes, NodeById(nodes, Head(anchors)), baseUrl)
       IN (IF entry.null THEN <<>> ELSE <<entry.pair>>)
          \o MapFilterLinks(nodes, Tail(anchors), baseUrl)

\* A harvester that merges entries that are equal.
RECURSIVE Deduplicate(_)
Deduplicate(entries) ==
  IF Len(entries) = 0 THEN <<>>
  ELSE LET n == Len(entries)
           front == Deduplicate(SubSeq(entries, 1, n - 1))
       IN IF \E i \in 1..(n - 1) : entries[i] = entries[n]
          THEN front ELSE Append(front, entries[n])

ExtractLinksDeduplicated(nodes, baseUrl) ==
  Deduplicate(MapFilterLinks(nodes, Matching(nodes, 0, <<"a[href]">>), baseUrl))

ExtractLinks(nodes, baseUrl) ==
  MapFilterLinks(nodes, Matching(nodes, 0, <<"a[href]">>), baseUrl)

\* ------------------------------------------------------------------------
\* Sanitizer
\* ------------------------------------------------------------------------
RECURSIVE EmptyAll(_, _)
EmptyAll(nodes, ids) ==
  IF Len(ids) = 0 THEN nodes
  ELSE EmptyAll(SetInnerHTML(nodes, Head(ids), <<>>), Tail(ids))

\* querySelectorAll('svg').forEach(x => x.innerHTML = '')
RemoveSvgs(nodes) ==
  EmptyAll(nodes, Matching(nodes, 0, <<"svg">>))

\* The selector list without the stylesheet links.
UnneededSelectorsNoStylesheet ==
  <<"script", "style", "noscript", "meta">>

UnneededSelectors ==
  <<"script", "style", "noscript", "meta", "link[rel=\"stylesheet\"]">>

RemoveUnneeded(nodes) ==
  RemoveAll(nodes, Matching(nodes, 0, UnneededSelectors))

\* A selector option: absent, one selector string, or an array of them.
NoSelector ==
  [given |-> FALSE, isArray |-> FALSE, selectors |-> <<>>]

OneSelector(sel) ==
  [given |-> TRUE, isArray |-> FALSE, selectors |-> <<sel>>]

SelectorArray(sels) ==
  [given |-> TRUE, isArray |-> TRUE, selectors |-> sels]

\* Truthiness of the option: an array always, a string unless it is empty.
IsTruthy(option) ==
  option.given /\ (option.isArray \/ option.selectors[1] # "")

\* Removes what each selector matches, one selector after the other.
RECURSIVE RemoveBySelectors(_, _)
RemoveBySelectors(nodes, sels) ==
  IF Len(sels) = 0 THEN [ok |-> TRUE, nodes |-> nodes]
  ELSE LET found == querySelectorAll(nodes, Head(sels))
       IN IF ~found.ok THEN [ok |-> FALSE, nodes |-> nodes]
          ELSE RemoveBySelectors(RemoveAll(nodes, found.ids), Tail(sels))

ApplyRemoveSelector(nodes, removeSelector) ==
  IF IsTruthy(removeSelector)
  THEN RemoveBySelectors(nodes, removeSelector.selectors)
  ELSE [ok |-> TRUE, nodes |-> nodes]

\* The tree walker visits every comment below the document element.
RemoveComments(nodes, removeComments) ==
  IF removeComments THEN SelectSeq(nodes, LAMBDA n : n.kind # "comment")
  ELSE nodes

RemoveImages(nodes) ==
  RemoveAll(nodes, Matching(nodes, 0, <<"img">>))

\* Attribute names for which attr.startsWith('data-') holds.
DataAttrNames ==
  {"data-shadow-host", "data-shadow-content", "data-frame-content", "data-id"}

\* Attribute names for which attr.startsWith('aria-') holds.
AriaAttrNames ==
  {"aria-label"}

StripDataAriaAttrs(nodes) ==
  [i \in 1..Len(nodes) |->
     IF nodes[i].kind = "element"
     THEN RemoveAttrs(nodes[i], DataAttrNames \cup AriaAttrNames)
     ELSE nodes[i]]

DisplayNone ==
  <<"d", "i", "s", "p", "l", "a", "y", ":", " ", "n", "o", "n", "e">>

\* A cleanup that compares the style value as written.
StripStyleAttrsCaseSensitive(nodes) ==
  [i \in 1..Len(nodes) |->
     IF HasAttr(nodes[i], "style")
        /\ ~StartsWith(GetAttr(nodes[i], "style"), DisplayNone)
     THEN RemoveAttrs(nodes[i], {"style"})
     ELSE nodes[i]]

StripStyleAttrs(nodes) ==
  [i \in 1..Len(nodes) |->
     IF HasAttr(nodes[i], "style")
        /\ ~StartsWith(ToLowerCase(GetAttr(nodes[i], "style")), DisplayNone)
     THEN RemoveAttrs(nodes[i], {"style"})
     ELSE nodes[i]]

\* The cleaning statements in the order processHtml runs them.  ok = FALSE
\* when querySelectorAll threw on a removeSelector.
CleanDom(nodes, removeSelector, removeComments) ==
  LET removed == ApplyRemoveSelector(RemoveUnneeded(RemoveSvgs(nodes)), removeSelector)
  IN IF ~removed.ok THEN [ok |-> FALSE, nodes |-> nodes]
     ELSE [ok |-> TRUE,
           nodes |-> StripStyleAttrs(StripDataAriaAttrs(RemoveImages(
                       RemoveComments(removed.nodes, removeComments))))]

\* ------------------------------------------------------------------------
\* Content selector
\* ------------------------------------------------------------------------
\* A collection loop that pushes every match, met before or not.
RECURSIVE PushNewNoCheck(_, _)
PushNewNoCheck(allNodes, ids) ==
  IF Len(ids) = 0 THEN allNodes
  ELSE PushNewNoCheck(Append(allNodes, Head(ids)), Tail(ids))

\* forEach(el => { if (!allNodes.includes(el)) allNodes.push(el) })
RECURSIVE PushNew(_, _)
PushNew(allNodes, ids) ==
  IF Len(ids) = 0 THEN allNodes
  ELSE PushNew(IF \E k \in 1..Len(allNodes) : allNodes[k] = Head(ids)
               THEN allNodes ELSE Append(allNodes, Head(ids)),
               Tail(ids))

\* The loop over the selectors; ok = FALSE when querySelectorAll threw.
RECURSIVE CollectNodes(_, _, _)
CollectNodes(nodes, sels, allNodes) ==
  IF Len(sels) = 0 THEN [ok |-> TRUE, allNodes |-> allNodes]
  ELSE LET found == querySelectorAll(nodes, Head(sels))
       IN IF ~found.ok THEN [ok |-> FALSE, allNodes |-> allNodes]
          ELSE CollectNodes(nodes, Tail(sels), PushNew(allNodes, found.ids))

Subtree(nodes, id) ==
  SelectSeq(nodes, LAMBDA n : InSubtree(nodes, n.id, id))

ParagraphBreak ==
  <<"\n", "\n">>

\* selectedDoc.body.appendChild(node) followed by the appendChild of a
\* '\n\n' text node.  appendChild moves the node, with its subtree, from
\* wherever it is: out of the document, or out of an element selected before.
AppendSelected(trees, node) ==
  LET inDocument == node \in Ids(trees.document)
      from == IF inDocument THEN trees.document ELSE trees.selectedDoc
      body == BodyId(trees.selectedDoc)
      sub == Subtree(from, node)
      moved == [i \in 1..Len(sub) |->
                  IF sub[i].id = node THEN [sub[i] EXCEPT !.parent = body]
                  ELSE sub[i]]
      rest == SelectSeq(from, LAMBDA n : ~InSubtree(from, n.id, node))
      fresh == MaxId(trees.document \o trees.selectedDoc) + 1
  IN [document |-> IF inDocument THEN rest ELSE trees.document,
      selectedDoc |-> (IF inDocument THEN trees.selectedDoc ELSE rest)
                      \o moved
                      \o <<Node(fresh, body, "text", "", NoAttrs, ParagraphBreak)>>]

RECURSIVE AppendAllSelected(_, _)
AppendAllSelected(trees, allNodes) ==
  IF Len(allNodes) = 0 THEN trees
  ELSE AppendAllSelected(AppendSelected(trees, Head(allNodes)), Tail(allNodes))

TargetWarning ==
  "Target selector(s) did not match any content"

\* A selector block that narrows to the synthetic container even when
\* nothing matched.
ProcessTargetSelectorAlwaysNarrow(nodes, targetSelector) ==
  LET collected == IF IsTruthy(targetSelector)
                   THEN CollectNodes(nodes, targetSelector.selectors, <<>>)
                   ELSE [ok |-> TRUE, allNodes |-> <<>>]
      emptyDoc == parseHTML(<<>>, MaxId(nodes) + 1)
      trees == AppendAllSelected([document |-> nodes, selectedDoc |-> emptyDoc],
                                 collected.allNodes)
  IN IF ~collected.ok
     THEN [ok |-> FALSE, allNodes |-> <<>>, document |-> nodes,
           selectedDoc |-> <<>>, rootContent |-> "document", warned |-> <<>>,
           beware |-> IsTruthy(targetSelector)]
     ELSE IF IsTruthy(targetSelector)
     THEN [ok |-> TRUE, allNodes |-> collected.allNodes,
           document |-> trees.document, selectedDoc |-> trees.selectedDoc,
           rootContent |-> "selectedDoc", warned |-> <<>>,
           beware |-> TRUE]
     ELSE [ok |-> TRUE, allNodes |-> <<>>, document |-> nodes,
           selectedDoc |-> <<>>, rootContent |-> "document", warned |-> <<>>,
           beware |-> FALSE]

\* The targetSelector block.  rootContent is "document" or "selectedDoc".
ProcessTargetSelector(nodes, targetSelector) ==
  LET collected == IF IsTruthy(targetSelector)
                   THEN CollectNodes(nodes, targetSelector.selectors, <<>>)
                   ELSE [ok |-> TRUE, allNodes |-> <<>>]
      bewareTargetContentDoesNotExist == IsTruthy(targetSelector)
      emptyDoc == parseHTML(<<>>, MaxId(nodes) + 1)
      trees == AppendAllSelected([document |-> nodes, selectedDoc |-> emptyDoc],
                                 collected.allNodes)
  IN IF ~collected.ok
     THEN [ok |-> FALSE, allNodes |-> <<>>, document |-> nodes,
           selectedDoc |-> <<>>, rootContent |-> "document", warned |-> <<>>,
           beware |-> bewareTargetContentDoesNotExist]
     ELSE IF Len(collected.allNodes) > 0
     THEN [ok |-> TRUE, allNodes |-> collected.allNodes,
           document |-> trees.document, selectedDoc |-> trees.selectedDoc,
           rootContent |-> "selectedDoc", warned |-> <<>>,
           beware |-> bewareTargetContentDoesNotExist]
     ELSE [ok |-> TRUE, allNodes |-> <<>>, document |-> nodes,
           selectedDoc |-> <<>>, rootContent |-> "document",
           warned |-> IF bewareTargetContentDoesNotExist
                      THEN <<TargetWarning>> ELSE <<>>,
           beware |-> bewareTargetContentDoesNotExist]

\* ------------------------------------------------------------------------
\* Main content extraction.  Readability is a collaborator: it throws,
\* returns null, returns an article without content, or returns an article
\* wrapping the markup of the body.
\* ------------------------------------------------------------------------
ReadabilityOutcomes ==
  {"article", "empty", "null", "throws"}

PageAttrs ==
  [class |-> <<"p", "a", "g", "e">>]

NoArticle ==
  [isNull |-> TRUE, content |-> <<>>]

\* new Readability(document.cloneNode(true)).parse() for an outcome that
\* does not throw.
ReadabilityParse(nodes, outcome) ==
  IF outcome = "article"
  THEN [isNull |-> FALSE,
        content |-> <<Open("div", PageAttrs)>> \o InnerHTML(nodes, BodyId(nodes))
                    \o <<Close("div")>>]
  ELSE IF outcome = "empty" THEN [isNull |-> FALSE, content |-> <<>>]
  ELSE NoArticle

\* An extraction that takes whatever a returned article holds.
MainContentOfNoFallback(nodes, outcome, article) ==
  IF outcome # "throws" /\ ~article.isNull
  THEN article.content
  ELSE InnerHTML(nodes, BodyId(nodes))

\* The value of mainContent after the try/catch around Readability.
MainContentOf(nodes, outcome, article) ==
  IF outcome # "throws" /\ ~article.isNull /\ Len(article.content) > 0
  THEN article.content
  ELSE InnerHTML(nodes, BodyId(nodes))

\* ------------------------------------------------------------------------
\* Rendering
\* ------------------------------------------------------------------------
\* parseHTML(mainContent).window.document.body.textContent?.trim() || ''
TextOf(markup) ==
  LET parsedDom == parseHTML(markup, 1)
  IN Trim(TextContent(parsedDom, BodyId(parsedDom)))

\* title.replace(/"/g, '\\"')
EscapeQuotes(s) ==
  Concat([i \in 1..Len(s) |-> IF s[i] = "\"" THEN <<"\\", "\"">> ELSE <<s[i]>>])

\* The 'remove-irrelevant' filter.
IrrelevantTags ==
  {"style", "script", "noscript", "link", "textarea", "select"}

\* The replacement of the 'remove-empty-paragraphs' rule.
ParagraphReplacement(content) ==
  IF Len(Trim(content)) > 0 THEN content \o <<"\n", "\n">> ELSE <<>>

\* The replacement of the 'improved-links' rule.
LinkReplacement(content, node, baseUrl) ==
  LET href == GetAttr(node, "href")
      title == IF Len(GetAttr(node, "title")) > 0
               THEN <<" ", "\"">> \o EscapeQuotes(GetAttr(node, "title")) \o <<"\"">>
               ELSE <<>>
      fixedContent == Trim(CollapseWhitespace(content))
      stripped == Trim(StripWhitespace(href))
      resolved == ResolveUrl(stripped, baseUrl)
      fixedHref == IF baseUrl # NoBase /\ resolved.ok THEN resolved.url ELSE stripped
  IN <<"[">> \o fixedContent \o <<"]", "(">> \o fixedHref \o title \o <<")">>

\* The character U+0060, which a TLA+ string cannot hold.
Backtick ==
  "U+0060"

\* content.match(/`+/gm): the lengths of the maximal runs of backticks.
BacktickRuns(content) ==
  {j - i + 1 : <<i, j>> \in
     {r \in (1..Len(content)) \X (1..Len(content)) :
        /\ r[1] <= r[2]
        /\ \A k \in r[1]..r[2] : content[k] = Backtick
        /\ r[1] = 1 \/ content[r[1] - 1] # Backtick
        /\ r[2] = Len(content) \/ content[r[2] + 1] # Backtick}}

Backticks(n) ==
  [i \in 1..n |-> Backtick]

\* while (matches.indexOf(delimiter) !== -1) delimiter = delimiter + '`'
RECURSIVE GrowDelimiter(_, _)
GrowDelimiter(runs, n) ==
  IF n \in runs THEN GrowDelimiter(runs, n + 1) ELSE n

\* The delimiter the 'improved-code' replacement settles on.
CodeDelimiter(content) ==
  IF \E i \in 1..Len(content) : content[i] = "\n" THEN Backticks(3)
  ELSE Backticks(GrowDelimiter(BacktickRuns(content), 1))

\* /^`|^ .*?[^ ].* $|`$/.test(content), for content without line breaks.
NeedsPadding(content) ==
  /\ Len(content) > 0
  /\ \/ content[1] = Backtick
     \/ content[Len(content)] = Backtick
     \/ /\ Len(content) >= 3
        /\ content[1] = " "
        /\ content[Len(content)] = " "
        /\ \E k \in 2..(Len(content) - 1) : content[k] # " "

\* The replacement of the 'improved-code' rule.
CodeReplacement(content) ==
  LET Wrap(delimiter, extraSpace) ==
        delimiter \o extraSpace \o content
        \o (IF delimiter = Backticks(3)
               /\ SubSeq(content, Len(content) - Len(extraSpace) + 1, Len(content))
                  # extraSpace
            THEN extraSpace ELSE <<>>)
        \o delimiter
      Pad(delimiter) ==
        Wrap(delimiter,
             IF delimiter = Backticks(3) THEN <<"\n">>
             ELSE IF NeedsPadding(content) THEN <<" ">> ELSE <<>>)
  IN IF Len(content) = 0 THEN <<>> ELSE Pad(CodeDelimiter(content))

\* The serializer's walk: each node is rendered by the first rule whose
\* filter accepts it; an element no rule accepts renders as its content.
RECURSIVE RenderNode(_, _, _)
RECURSIVE RenderSeq(_, _, _)
RenderNode(nodes, n, baseUrl) ==
  LET content == RenderSeq(nodes, Children(nodes, n.id), baseUrl)
  IN IF n.kind = "text" THEN n.data
     ELSE IF n.kind = "comment" THEN <<>>
     ELSE IF n.tag = "a" /\ Len(GetAttr(n, "href")) > 0
     THEN LinkReplacement(content, n, baseUrl)
     ELSE IF n.tag = "p" THEN ParagraphReplacement(content)
     ELSE IF n.tag \in IrrelevantTags THEN <<>>
     ELSE content

RenderSeq(nodes, kids, baseUrl) ==
  IF Len(kids) = 0 THEN <<>>
  ELSE RenderNode(nodes, Head(kids), baseUrl) \o RenderSeq(nodes, Tail(kids), baseUrl)

\* turndownService.turndown(mainContent) when it does not throw: the
\* serializer parses the markup itself and trims what it rendered.
turndown(markup, baseUrl) ==
  LET parsed == parseHTML(markup, 1)
  IN Trim(RenderSeq(parsed, Children(parsed, BodyId(parsed)), baseUrl))

\* prepareDomForTurndown(html): the rows property defined on each table
\* element of the document the function parses for itself, whose nodes
\* are numbered from firstId on.
prepareDomForTurndown(markup, firstId) ==
  LET Tagged(prepared, tables) ==
        [i \in 1..Len(tables) |->
           [table |-> tables[i],
            rows |-> Matching(prepared, tables[i], <<"tr">>)]]
      Tag(prepared) ==
        Tagged(prepared, Matching(prepared, 0, <<"table">>))
  IN Tag(parseHTML(markup, firstId))

\* ------------------------------------------------------------------------
\* State
\* ------------------------------------------------------------------------
VARIABLES
  cText, cOnce, cTwice, cPc,      \* the normalizer on its own
  codeContent, codeDelimiter, codeOutput, codePc,   \* the code rule on its own
  sanInput, sanSelector, sanComments,   \* the sanitizer on its own: its inputs,
  sanTree, sanRemaining, sanPc,         \* the tree so far, the statements left
  pc,                 \* the stage processHtml has completed
  html, format, baseUrl,          \* arguments read on entry
  dom,                \* dom.window.document
  title, description,
  links,
  rootContent, selectedDoc, allNodes, bewareTargetContentDoesNotExist,
  mainContent, readabilityResult,
  preparedTables,     \* what prepareDomForTurndown tagged, in its own document
  turndownDom,        \* the document the serializer parsed and rendered
  processedContent,
  result,
  warnings,           \* console.warn messages, in order
  readabilityCalls,   \* number of Readability.parse() calls
  inlinedDom,         \* the document as the inliner left it
  cleanedDom          \* the document as the sanitizer left it

kvars ==
  <<codeContent, codeDelimiter, codeOutput, codePc>>

svars ==
  <<sanInput, sanSelector, sanComments, sanTree, sanRemaining, sanPc>>

cvars ==
  <<cText, cOnce, cTwice, cPc, kvars, svars>>

pvars ==
  <<pc, html, format, baseUrl, dom, title, description, links, rootContent,
    selectedDoc, allNodes, mainContent, readabilityResult, preparedTables, turndownDom,
    processedContent, result, warnings, readabilityCalls, inlinedDom, cleanedDom,
    bewareTargetContentDoesNotExist>>

vars ==
  <<cvars, pvars>>

\* ------------------------------------------------------------------------
\* Whitespace normalizer applied to bounded strings
\* ------------------------------------------------------------------------

\* The pipeline before any call: nothing parsed, nothing returned.
NoResult ==
  [content |-> <<>>, title |-> <<>>, description |-> <<>>, links |-> <<>>]

PipelineIdle ==
  /\ pc = "idle"
  /\ html = <<>>
  /\ format = "markdown"
  /\ baseUrl = NoBase
  /\ dom = <<>>
  /\ title = <<>>
  /\ description = <<>>
  /\ links = <<>>
  /\ rootContent = "document"
  /\ selectedDoc = <<>>
  /\ allNodes = <<>>
  /\ bewareTargetContentDoesNotExist = FALSE
  /\ mainContent = <<>>
  /\ readabilityResult = NoArticle
  /\ preparedTables = <<>>
  /\ turndownDom = <<>>
  /\ processedContent = <<>>
  /\ result = NoResult
  /\ warnings = <<>>
  /\ readabilityCalls = 0
  /\ inlinedDom = <<>>
  /\ cleanedDom = <<>>

\* Neither string function has been applied.
StringsIdle ==
  /\ cText = <<>>
  /\ cOnce = <<>>
  /\ cTwice = <<>>
  /\ cPc = "idle"

CodeIdle ==
  /\ codeContent = <<>>
  /\ codeDelimiter = <<>>
  /\ codeOutput = <<>>
  /\ codePc = "idle"

SanitizerIdle ==
  /\ sanInput = <<>>
  /\ sanSelector = NoSelector
  /\ sanComments = TRUE
  /\ sanTree = <<>>
  /\ sanRemaining = {}
  /\ sanPc = "idle"

CleanAlphabet ==
  {"A", "B", " ", "\r", "\n"}

RECURSIVE StringsUpTo(_, _)
StringsUpTo(alphabet, n) ==
  IF n = 0 THEN {<<>>}
  ELSE LET shorter == StringsUpTo(alphabet, n - 1)
       IN shorter \cup {Append(s, c) : s \in {t \in shorter : Len(t) = n - 1}, c \in alphabet}

CleanInit ==
  /\ cText \in StringsUpTo(CleanAlphabet, MaxLen)
  /\ cOnce = <<>>
  /\ cTwice = <<>>
  /\ cPc = "input"
  /\ CodeIdle
  /\ SanitizerIdle
  /\ PipelineIdle

CleanOnce ==
  /\ cPc = "input"
  /\ cOnce' = cleanRedundantEmptyLines(cText)
  /\ cPc' = "once"
  /\ UNCHANGED <<cText, cTwice, kvars, svars, pvars>>

CleanTwice ==
  /\ cPc = "once"
  /\ cTwice' = cleanRedundantEmptyLines(cOnce)
  /\ cPc' = "twice"
  /\ UNCHANGED <<cText, cOnce, kvars, svars, pvars>>

CleanNext ==
  \/ CleanOnce
  \/ CleanTwice

SpecClean ==
  CleanInit /\ [][CleanNext]_vars

\* ------------------------------------------------------------------------
\* The 'improved-code' rule applied to bounded content
\* ------------------------------------------------------------------------
CodeAlphabet ==
  {"a", " ", Backtick, "\n"}

CodeInit ==
  /\ codeContent \in StringsUpTo(CodeAlphabet, MaxLen)
  /\ codeDelimiter = <<>>
  /\ codeOutput = <<>>
  /\ codePc = "input"
  /\ StringsIdle
  /\ SanitizerIdle
  /\ PipelineIdle

\* The delimiter loop and the newline test.
CodeChooseDelimiter ==
  /\ codePc = "input"
  /\ Len(codeContent) > 0
  /\ codeDelimiter' = CodeDelimiter(codeContent)
  /\ codePc' = "delimited"
  /\ UNCHANGED <<codeContent, codeOutput, cText, cOnce, cTwice, cPc, svars, pvars>>

\* The return statement; empty content returns '' at once.
CodeReturn ==
  /\ \/ codePc = "delimited"
     \/ codePc = "input" /\ Len(codeContent) = 0
  /\ codeOutput' = CodeReplacement(codeContent)
  /\ codePc' = "returned"
  /\ UNCHANGED <<codeContent, codeDelimiter, cText, cOnce, cTwice, cPc, svars, pvars>>

CodeNext ==
  \/ CodeChooseDelimiter
  \/ CodeReturn

SpecCode ==
  CodeInit /\ [][CodeNext]_vars

\* ------------------------------------------------------------------------
\* Input documents: the concatenation of up to MaxItems pieces of markup
\* ------------------------------------------------------------------------
Attrs(pairs) ==
  [name \in {pairs[i][1] : i \in 1..Len(pairs)} |->
     pairs[CHOOSE i \in 1..Len(pairs) : pairs[i][1] = name][2]]

TextHello ==
  <<"H", "e", "l", "l", "o">>

TextEvil ==
  <<"e", "v", "i", "l", "(", ")">>

TextLink ==
  <<"L", "i", "n", "k">>

HrefX ==
  <<"/", "x">>

HrefAlert ==
  PrefixJavascript \o <<"a", "l", "e", "r", "t", "(", "1", ")">>

HrefAlertUpper ==
  <<"J", "A", "V", "A", "S", "C", "R", "I", "P", "T", ":",
    "a", "l", "e", "r", "t", "(", "1", ")">>

HrefFile ==
  PrefixFile \o <<"/", "/", "/", "e">>

HrefNoHost ==
  SchemeHttp \o <<":", "/", "/">>

ExampleBase ==
  SchemeHttps \o <<":", "/", "/", "e", "x", "a", "m", "p", "l", "e", ".", "c", "o", "m">>

FrameSrc ==
  SchemeHttps \o <<":", "/", "/", "f", ".", "o", "r", "g", "/", "d", "/">>

\* A baseUrl that is not a URL.
BrokenBase ==
  <<"n", "o", "t", " ", "a", " ", "u", "r", "l">>

Anchor(href, text) ==
  <<Open("a", Attrs(<<<<"href", href>>>>)), Text(text), Close("a")>>

Script ==
  <<Open("script", NoAttrs), Text(TextEvil), Close("script")>>

ItemPara ==
  <<Open("p", NoAttrs), Text(TextHello), Close("p")>>

ItemScript ==
  Script

ItemJunk ==
  <<Open("div", Attrs(<<<<"style", <<"c", "o", "l", "o", "r", ":", "r", "e", "d">>>>,
                        <<"aria-label", <<"l">>>>>>)),
    Open("style", NoAttrs), Text(<<"s">>), Close("style"),
    Open("noscript", NoAttrs), Text(<<"n">>), Close("noscript"),
    Open("meta", Attrs(<<<<"name", <<"k">>>>>>)),
    Open("link", Attrs(<<<<"rel", RelStylesheet>>>>)),
    Open("link", Attrs(<<<<"rel", <<"i", "c", "o", "n">>>>>>)),
    Open("img", Attrs(<<<<"src", <<"i">>>>>>)),
    Open("svg", NoAttrs), Open("path", NoAttrs), Close("path")>>
  \o Script
  \o <<Close("svg"), Comment(<<"c">>), Text(<<"j">>),
        Open("b", Attrs(<<<<"style", <<"D", "I", "S", "P", "L", "A", "Y", ":", " ",
                                       "N", "o", "n", "e", ";">>>>>>)),
        Close("b"),
        Open("i", Attrs(<<<<"style", <<"d", "i", "s", "p", "l", "a", "y", ":",
                                       "n", "o", "n", "e">>>>>>)),
        Close("i"),
        Close("div")>>

ItemLink ==
  Anchor(HrefX, TextLink)

ItemLinks ==
  Anchor(<<"y">>, <<" ", " ", "a", " ", "\n", "b", " ">>)
  \o Anchor(HrefNoHost, <<"B">>)
  \o Anchor(<<>>, <<"E">>)
  \o <<Open("a", NoAttrs), Text(<<"N">>), Close("a")>>
  \o Anchor(HrefAlert, <<"J">>) \o Anchor(HrefAlertUpper, <<"U">>)
  \o Anchor(HrefFile, <<"F">>)
  \o Anchor(<<"y">>, <<"a", " ", "b">>)

ShadowContent ==
  Anchor(<<"/", "s">>, <<"S">>) \o Script
  \o <<Open("p", NoAttrs), Text(<<"h">>), Close("p")>>

ShadowHost ==
  <<Open("div", Attrs(<<<<"data-shadow-host", ValueTrue>>,
                        <<"data-shadow-content", ShadowContent>>>>)),
    Text(<<"o">>),
    Close("div")>>

FrameContent ==
  Anchor(<<"r">>, <<"R">>) \o Script
  \o <<Open("img", Attrs(<<<<"src", <<"i">>>>>>))>>

ItemEmbedded ==
  ShadowHost
  \o <<Open("iframe", Attrs(<<<<"src", FrameSrc>>,
                              <<"data-frame-content", FrameContent>>>>)),
        Close("iframe"),
        Open("iframe", Attrs(<<<<"data-frame-content",
                                 <<Open("b", NoAttrs), Text(<<"f">>), Close("b")>>>>>>)),
        Close("iframe")>>

ItemAd ==
  <<Open("div", Attrs(<<<<"class", ClassAd>>>>))>>
  \o Anchor(HrefX, TextLink)
  \o <<Close("div")>>

ItemMain ==
  <<Open("div", Attrs(<<<<"class", ClassMain>>>>)),
    Open("p", NoAttrs), Text(TextHello), Close("p"),
    Open("table", NoAttrs), Open("tr", NoAttrs), Open("td", NoAttrs),
    Text(<<"c">>), Close("td"), Close("tr"), Close("table"),
    Close("div")>>

Items ==
  <<ItemPara, ItemScript, ItemJunk, ItemLink, ItemLinks, ItemEmbedded,
    ItemAd, ItemMain>>

MaxItems ==
  2

\* The fragments chosen by picks, concatenated in the order of Items.
RECURSIVE HtmlsOfLength(_, _)
HtmlsOfLength(picks, i) ==
  IF i > Len(Items) THEN <<>>
  ELSE (IF i \in picks THEN Items[i] ELSE <<>>) \o HtmlsOfLength(picks, i + 1)

\* Pages made of at most MaxItems distinct fragments.
Htmls ==
  {HtmlsOfLength(picks, 1) :
     picks \in {S \in SUBSET (1..Len(Items)) : Cardinality(S) <= MaxItems}}

Formats ==
  {"markdown", "text"}

BaseUrls ==
  {NoBase, ExampleBase, BrokenBase}

RemoveSelectors ==
  {NoSelector, OneSelector(".ad"), SelectorArray(<<".ad", "p">>),
   OneSelector(InvalidSelector)}

TargetSelectors ==
  {NoSelector, OneSelector(""), OneSelector(".main"), OneSelector(".none"),
   SelectorArray(<<>>), SelectorArray(<<".main", "p">>),
   SelectorArray(<<"p", "div", ".main">>),
   OneSelector(InvalidSelector)}

\* ------------------------------------------------------------------------
\* The sanitizer's statements applied one at a time, in any order
\* ------------------------------------------------------------------------
SanitizerSteps ==
  {"svg", "unneeded", "removeSelector", "comments", "img", "dataAria", "style"}

\* One statement of the sanitizer, applied to nodes.
ApplyStep(step, nodes, removeSelector, removeComments) ==
  CASE step = "svg" -> RemoveSvgs(nodes)
    [] step = "unneeded" -> RemoveUnneeded(nodes)
    [] step = "removeSelector" -> ApplyRemoveSelector(nodes, removeSelector).nodes
    [] step = "comments" -> RemoveComments(nodes, removeComments)
    [] step = "img" -> RemoveImages(nodes)
    [] step = "dataAria" -> StripDataAriaAttrs(nodes)
    [] step = "style" -> StripStyleAttrs(nodes)

\* removeSelector values that querySelectorAll accepts.
SanitizeSelectors ==
  {NoSelector, OneSelector(".ad"), SelectorArray(<<".ad", "p">>),
   OneSelector("[style]")}

SanitizeInit ==
  /\ \E markup \in Htmls : sanInput = parseHTML(markup, 1)
  /\ sanSelector \in SanitizeSelectors
  /\ sanComments \in BOOLEAN
  /\ sanTree = sanInput
  /\ sanRemaining = SanitizerSteps
  /\ sanPc = "run"
  /\ StringsIdle
  /\ CodeIdle
  /\ PipelineIdle

SanitizeStep ==
  /\ sanPc = "run"
  /\ \E step \in sanRemaining :
       /\ sanTree' = ApplyStep(step, sanTree, sanSelector, sanComments)
       /\ sanRemaining' = sanRemaining \ {step}
  /\ UNCHANGED <<sanInput, sanSelector, sanComments, sanPc,
                 cText, cOnce, cTwice, cPc, kvars, pvars>>

SpecSanitize ==
  SanitizeInit /\ [][SanitizeStep]_vars

\* ------------------------------------------------------------------------
\* processHtml, one action per stage
\* ------------------------------------------------------------------------
\* An order in which the links are harvested after the sanitizer has run.
StageAfterCleanFirst(stage) ==
  CASE stage = "start" -> "parsed"
    [] stage = "parsed" -> "shadow"
    [] stage = "shadow" -> "iframes"
    [] stage = "iframes" -> "cleaned"
    [] stage = "cleaned" -> "links"
    [] stage = "links" -> "targeted"
    [] stage = "targeted" -> "extracted"
    [] stage = "extracted" -> "rendered"
    [] stage = "rendered" -> "done"
    [] OTHER -> "none"

\* The order in which processHtml runs its stages.
StageAfter(stage) ==
  CASE stage = "start" -> "parsed"
    [] stage = "parsed" -> "shadow"
    [] stage = "shadow" -> "iframes"
    [] stage = "iframes" -> "links"
    [] stage = "links" -> "cleaned"
    [] stage = "cleaned" -> "targeted"
    [] stage = "targeted" -> "extracted"
    [] stage = "extracted" -> "rendered"
    [] stage = "rendered" -> "done"
    [] OTHER -> "none"

\* document.title: the text of the first title element, '' without one.
TitleOf(nodes) ==
  LET titles == Matching(nodes, 0, <<"title">>)
  IN IF Len(titles) = 0 THEN <<>> ELSE TextContent(nodes, titles[1])

\* The content of the first meta[name="description"] inside head, else ''.
DescriptionOf(nodes) ==
  LET head == (CHOOSE i \in 1..Len(nodes) : nodes[i].tag = "head")
      metas == SelectSeq(nodes, LAMBDA n :
                 /\ n.tag = "meta"
                 /\ GetAttr(n, "name") = <<"d", "e", "s", "c", "r", "i", "p", "t", "i", "o", "n">>
                 /\ HasAncestor(nodes, n.id, nodes[head].id))
  IN IF Len(metas) = 0 THEN <<>> ELSE GetAttr(metas[1], "content")

Init ==
  /\ StringsIdle
  /\ CodeIdle
  /\ SanitizerIdle
  /\ pc = "start"
  /\ html \in Htmls
  /\ format \in Formats
  /\ baseUrl \in BaseUrls
  /\ dom = <<>>
  /\ title = <<>>
  /\ description = <<>>
  /\ links = <<>>
  /\ rootContent = "document"
  /\ selectedDoc = <<>>
  /\ allNodes = <<>>
  /\ bewareTargetContentDoesNotExist = FALSE
  /\ mainContent = <<>>
  /\ readabilityResult = NoArticle
  /\ preparedTables = <<>>
  /\ turndownDom = <<>>
  /\ processedContent = <<>>
  /\ result = NoResult
  /\ warnings = <<>>
  /\ readabilityCalls = 0
  /\ inlinedDom = <<>>
  /\ cleanedDom = <<>>

\* parseHTML(html), document.title and the description.
ParseStep ==
  /\ StageAfter(pc) = "parsed"
  /\ pc' = "parsed"
  /\ dom' = parseHTML(html, 1)
  /\ title' = TitleOf(dom')
  /\ description' = DescriptionOf(dom')
  /\ UNCHANGED <<cvars, html, format, baseUrl, links, rootContent, selectedDoc,
                 allNodes, mainContent, readabilityResult, preparedTables, turndownDom,
                 processedContent, result, warnings, readabilityCalls,
                 inlinedDom, cleanedDom,
                 bewareTargetContentDoesNotExist>>

ShadowStep ==
  /\ StageAfter(pc) = "shadow"
  /\ pc' = "shadow"
  /\ \E withShadowDom \in BOOLEAN :
       dom' = ProcessShadowDom(dom, withShadowDom)
  /\ UNCHANGED <<cvars, html, format, baseUrl, title, description, links,
                 rootContent, selectedDoc, allNodes, mainContent,
                 readabilityResult, preparedTables, turndownDom, processedContent, result,
                 warnings, readabilityCalls, inlinedDom, cleanedDom,
                 bewareTargetContentDoesNotExist>>

IframeStep ==
  /\ StageAfter(pc) = "iframes"
  /\ pc' = "iframes"
  /\ \E withIframe \in BOOLEAN :
       dom' = ProcessIframes(dom, withIframe, baseUrl)
  /\ inlinedDom' = dom'
  /\ UNCHANGED <<cvars, html, format, baseUrl, title, description, links,
                 rootContent, selectedDoc, allNodes, mainContent,
                 readabilityResult, preparedTables, turndownDom, processedContent, result,
                 warnings, readabilityCalls, cleanedDom,
                 bewareTargetContentDoesNotExist>>

LinksStep ==
  /\ StageAfter(pc) = "links"
  /\ pc' = "links"
  /\ links' = ExtractLinks(dom, baseUrl)
  /\ UNCHANGED <<cvars, html, format, baseUrl, dom, title, description,
                 rootContent, selectedDoc, allNodes, mainContent,
                 readabilityResult, preparedTables, turndownDom, processedContent, result,
                 warnings, readabilityCalls, inlinedDom, cleanedDom,
                 bewareTargetContentDoesNotExist>>

\* The sanitizer; an exception of querySelectorAll leaves processHtml.
CleanStep ==
  /\ StageAfter(pc) = "cleaned"
  /\ \E removeSelector \in RemoveSelectors, removeComments \in BOOLEAN :
       LET cleaned == CleanDom(dom, removeSelector, removeComments)
       IN IF cleaned.ok
          THEN /\ pc' = "cleaned"
               /\ dom' = cleaned.nodes
               /\ cleanedDom' = cleaned.nodes
          ELSE /\ pc' = "thrown"
               /\ UNCHANGED <<dom, cleanedDom>>
  /\ UNCHANGED <<cvars, html, format, baseUrl, title, description, links,
                 rootContent, selectedDoc, allNodes, mainContent,
                 readabilityResult, preparedTables, turndownDom, processedContent, result,
                 warnings, readabilityCalls, inlinedDom,
                 bewareTargetContentDoesNotExist>>

TargetStep ==
  /\ StageAfter(pc) = "targeted"
  /\ \E targetSelector \in TargetSelectors :
       LET targeted == ProcessTargetSelector(dom, targetSelector)
       IN IF targeted.ok
          THEN /\ pc' = "targeted"
               /\ dom' = targeted.document
               /\ selectedDoc' = targeted.selectedDoc
               /\ allNodes' = targeted.allNodes
               /\ rootContent' = targeted.rootContent
               /\ bewareTargetContentDoesNotExist' = targeted.beware
               /\ warnings' = warnings \o targeted.warned
          ELSE /\ pc' = "thrown"
               /\ UNCHANGED <<dom, selectedDoc, allNodes, rootContent, warnings,
                              bewareTargetContentDoesNotExist>>
  /\ UNCHANGED <<cvars, html, format, baseUrl, title, description, links,
                 mainContent, readabilityResult, preparedTables, turndownDom,
                 processedContent, result, readabilityCalls, inlinedDom,
                 cleanedDom>>

\* Readability on the full document, the selected content otherwise.
ExtractStep ==
  /\ StageAfter(pc) = "extracted"
  /\ pc' = "extracted"
  /\ IF rootContent = "document"
     THEN \E outcome \in ReadabilityOutcomes :
            /\ readabilityResult' =
                 (IF outcome = "throws" THEN NoArticle
                  ELSE ReadabilityParse(dom, outcome))
            /\ mainContent' = MainContentOf(dom, outcome, readabilityResult')
            /\ readabilityCalls' = readabilityCalls + 1
     ELSE /\ mainContent' = InnerHTML(selectedDoc, BodyId(selectedDoc))
          /\ UNCHANGED <<readabilityResult, readabilityCalls>>
  /\ UNCHANGED <<cvars, html, format, baseUrl, dom, title, description, links,
                 rootContent, selectedDoc, allNodes, preparedTables, turndownDom,
                 processedContent, result, warnings, inlinedDom, cleanedDom,
                 bewareTargetContentDoesNotExist>>

MarkdownWarning ==
  "Markdown conversion failed, falling back to text"

RenderStep ==
  /\ StageAfter(pc) = "rendered"
  /\ pc' = "rendered"
  /\ IF format = "markdown"
     THEN /\ preparedTables' =
               prepareDomForTurndown(mainContent, MaxId(dom \o selectedDoc) + 1)
          /\ \E turndownThrows \in BOOLEAN :
               IF turndownThrows
               THEN /\ processedContent' = TextOf(mainContent)
                    /\ warnings' = Append(warnings, MarkdownWarning)
                    /\ turndownDom' = <<>>
               ELSE /\ processedContent' = turndown(mainContent, baseUrl)
                    /\ turndownDom' =
                         parseHTML(mainContent,
                                   MaxId(dom \o selectedDoc) + 1
                                   + Len(parseHTML(mainContent, 1)))
                    /\ UNCHANGED warnings
     ELSE /\ processedContent' = TextOf(mainContent)
          /\ UNCHANGED <<preparedTables, turndownDom, warnings>>
  /\ UNCHANGED <<cvars, html, format, baseUrl, dom, title, description, links,
                 rootContent, selectedDoc, allNodes, mainContent, result,
                 readabilityResult, readabilityCalls, inlinedDom, cleanedDom,
                 bewareTargetContentDoesNotExist>>

\* cleanRedundantEmptyLines and the result object.  The optional
\* performance record holds wall-clock readings and is left out.
ResultStep ==
  /\ StageAfter(pc) = "done"
  /\ pc' = "done"
  /\ result' = [content |-> cleanRedundantEmptyLines(processedContent),
                title |-> title,
                description |-> description,
                links |-> links]
  /\ UNCHANGED <<cvars, html, format, baseUrl, dom, title, description, links,
                 rootContent, selectedDoc, allNodes, mainContent,
                 readabilityResult, preparedTables, turndownDom, processedContent, warnings,
                 readabilityCalls, inlinedDom, cleanedDom,
                 bewareTargetContentDoesNotExist>>

Next ==
  \/ ParseStep
  \/ ShadowStep
  \/ IframeStep
  \/ LinksStep
  \/ CleanStep
  \/ TargetStep
  \/ ExtractStep
  \/ RenderStep
  \/ ResultStep

Spec ==
  Init /\ [][Next]_vars

\* ------------------------------------------------------------------------
\* Properties of the whitespace normalizer
\* ------------------------------------------------------------------------

\* C2: cleanRedundantEmptyLines is idempotent: applying it to its own output
\* returns that output unchanged, for every input string.
C2_Idempotent ==
  cPc = "twice" => cTwice = cOnce

\* The lines of a string, as the normalizer itself delimits them.
NoBlankRun(s) ==
  LET lines == SplitLines(s)
  IN /\ \A i \in 1..(Len(lines) - 1) :
          IsSignificant(lines[i]) \/ IsSignificant(lines[i + 1])
     /\ (Len(s) > 0 => IsSignificant(lines[1]))

\* C3: the output has no two consecutive blank lines and no leading blank
\* line, and "A\n\n\n\nB" is mapped to exactly "A\n\nB".
C3_NoBlankRuns ==
  cPc # "input" =>
    /\ NoBlankRun(cOnce)
    /\ (cText = <<"A", "\n", "\n", "\n", "\n", "B">>
          => cOnce = <<"A", "\n", "\n", "B">>)

C3_Witness ==
  /\ cPc = "once"
  /\ cText = <<"A", "\n", "\n", "\n", "\n", "B">>
  /\ cOnce = <<"A", "\n", "\n", "B">>

\* ------------------------------------------------------------------------
\* Properties of processHtml
\* ------------------------------------------------------------------------

\* C1: processHtml never throws: no call ends in an exception, whatever the
\* html and the options are.
C1_NeverThrows ==
  pc # "thrown"

\* A javascript: or file: URL; schemes compare without regard to case, and
\* blank characters around a URL do not count.
IsUnsafeUrl(url) ==
  LET t == Trim(url)
      n == SchemeLen(t)
  IN n > 0 /\ ToLowerCase(SubSeq(t, 1, n)) \in {SchemeJavascript, SchemeFile}

\* C4: no entry of the returned links has a javascript: or file: URL, so no
\* anchor with such an href contributes an entry.
C4_NoUnsafeLinks ==
  pc = "done" =>
    \A i \in 1..Len(result.links) : ~IsUnsafeUrl(result.links[i][2])

\* The a[href] elements of a tree, in document order.
AnchorsOf(nodes) ==
  SelectSeq(nodes, LAMBDA n : n.kind = "element" /\ n.tag = "a" /\ HasAttr(n, "href"))

\* An anchor the harvester drops: empty href, rejected prefix, or an href
\* that does not resolve against the baseUrl supplied.
IsDropped(n) ==
  \/ Len(GetAttr(n, "href")) = 0
  \/ IsRejectedHref(GetAttr(n, "href"))
  \/ (baseUrl # NoBase /\ ~ResolveUrl(GetAttr(n, "href"), baseUrl).ok)

\* The maximal runs of non-blank characters of s.
Words(s) ==
  LET starts == SelectSeq([i \in 1..Len(s) |-> i], LAMBDA i :
                  ~IsWhitespace(s[i]) /\ (i = 1 \/ IsWhitespace(s[i - 1])))
      ends == SelectSeq([i \in 1..Len(s) |-> i], LAMBDA i :
                ~IsWhitespace(s[i]) /\ (i = Len(s) \/ IsWhitespace(s[i + 1])))
  IN [k \in 1..Len(starts) |-> SubSeq(s, starts[k], ends[k])]

RECURSIVE JoinWords(_)
JoinWords(words) ==
  IF Len(words) = 0 THEN <<>>
  ELSE IF Len(words) = 1 THEN words[1]
  ELSE words[1] \o <<" ">> \o JoinWords(Tail(words))

\* C5: the returned links are the accepted anchors of the inlined document,
\* one entry each, in document order and without merging equal entries; the
\* text of an entry is the words of the anchor's text joined by one space.
C5_LinksInDocumentOrder ==
  pc = "done" =>
    LET accepted == SelectSeq(AnchorsOf(inlinedDom), LAMBDA n : ~IsDropped(n))
    IN /\ Len(result.links) = Len(accepted)
       /\ \A i \in 1..Len(accepted) :
            /\ result.links[i][1] =
                 JoinWords(Words(TextContent(inlinedDom, accepted[i].id)))
            /\ result.links[i][2] =
                 (IF baseUrl = NoBase THEN GetAttr(accepted[i], "href")
                  ELSE ResolveUrl(GetAttr(accepted[i], "href"), baseUrl).url)

C5_Witness ==
  /\ pc = "done"
  /\ \E i, j \in 1..Len(result.links) : i < j /\ result.links[i] = result.links[j]
  /\ \E k \in 1..Len(AnchorsOf(inlinedDom)) :
       LET n == AnchorsOf(inlinedDom)[k]
       IN /\ ~IsDropped(n)
          /\ TextContent(inlinedDom, n.id) # JoinWords(Words(TextContent(inlinedDom, n.id)))

\* What one anchor adds to the links: for a non-empty href that is not a
\* javascript: or file: URL, the entry the claim describes; for any other
\* href, what the harvester makes of it.
Contribution(n) ==
  LET href == GetAttr(n, "href")
      text == Trim(CollapseWhitespace(TextContent(inlinedDom, n.id)))
      entry == LinkOf(inlinedDom, n, baseUrl)
  IN IF Len(href) > 0 /\ ~IsUnsafeUrl(href)
     THEN IF baseUrl = NoBase THEN <<<<text, href>>>>
          ELSE IF ResolveUrl(href, baseUrl).ok
          THEN <<<<text, ResolveUrl(href, baseUrl).url>>>>
          ELSE <<>>
     ELSE IF entry.null THEN <<>> ELSE <<entry.pair>>

ExampleX ==
  <<"h", "t", "t", "p", "s", ":", "/", "/", "e", "x", "a", "m", "p", "l", "e",
    ".", "c", "o", "m", "/", "x">>

\* C6: an anchor with a non-empty, safe href yields the href resolved against
\* baseUrl when that succeeds, nothing when resolution throws, and the raw
\* href when no baseUrl is supplied; <a href="/x">Link</a> with base
\* https://example.com yields exactly ("Link", "https://example.com/x").
C6_UrlResolution ==
  pc = "done" =>
    /\ result.links =
         Concat([i \in 1..Len(AnchorsOf(inlinedDom)) |->
                   Contribution(AnchorsOf(inlinedDom)[i])])
    /\ (html = ItemLink /\ baseUrl = ExampleBase
          => result.links = <<<<TextLink, ExampleX>>>>)

C6_Witness ==
  /\ pc = "done"
  /\ html = ItemLinks
  /\ baseUrl = ExampleBase
  /\ result.links[1] = <<<<"a", " ", "b">>, ExampleBase \o <<"/", "y">>>>
  /\ \A i \in 1..Len(result.links) : result.links[i][1] # <<"B">>

\* The content a call without targetSelector returns for the same sanitized
\* document, with the collaborators behaving as they did in this call.
ContentWithoutTarget ==
  LET markup == IF ~readabilityResult.isNull /\ Len(readabilityResult.content) > 0
                THEN readabilityResult.content
                ELSE InnerHTML(cleanedDom, BodyId(cleanedDom))
      failed == \E i \in 1..Len(warnings) : warnings[i] = MarkdownWarning
  IN cleanRedundantEmptyLines(
       IF format = "text" \/ failed THEN TextOf(markup)
       ELSE turndown(markup, baseUrl))

Warned(message) ==
  \E i \in 1..Len(warnings) : warnings[i] = message

\* C7: a targetSelector that matches nothing gives the content of the call
\* without targetSelector and one warning; without a targetSelector, or with
\* one that matches, there is no such warning.
C7_EmptyTargetFallsBack ==
  pc = "done" =>
    IF bewareTargetContentDoesNotExist /\ Len(allNodes) = 0
    THEN /\ Warned(TargetWarning)
         /\ readabilityCalls = 1
         /\ result.content = ContentWithoutTarget
    ELSE ~Warned(TargetWarning)

C7_Witness ==
  /\ pc = "done"
  /\ bewareTargetContentDoesNotExist
  /\ Len(allNodes) = 0
  /\ Warned(TargetWarning)
  /\ Len(result.content) > 0

\* C8: the returned links are those of the document as the inliner left it,
\* whatever removeSelector deleted and targetSelector narrowed afterwards.
C8_LinksBeforeCleaning ==
  pc = "done" => result.links = ExtractLinks(inlinedDom, baseUrl)

C8_Witness ==
  /\ pc = "done"
  /\ html = ItemEmbedded \o ItemAd
  /\ rootContent = "selectedDoc"
  /\ Len(result.links) = 3
  /\ \E k \in 1..Len(AnchorsOf(inlinedDom)) :
       AnchorsOf(inlinedDom)[k].id \notin Ids(parseHTML(html, 1))
  /\ \E k \in 1..Len(AnchorsOf(inlinedDom)) :
       /\ AnchorsOf(inlinedDom)[k].id \in Ids(parseHTML(html, 1))
       /\ AnchorsOf(inlinedDom)[k].id \notin Ids(cleanedDom)
  /\ \E k \in 1..Len(AnchorsOf(cleanedDom)) :
       AnchorsOf(cleanedDom)[k].id \notin Ids(selectedDoc)

\* Markup without script, style, noscript, meta, img and stylesheet-link
\* elements, in which every svg element is empty.
IsSanitized(markup) ==
  \A i \in 1..Len(markup) :
    markup[i].t = "open" =>
      /\ markup[i].tag \notin {"script", "style", "noscript", "meta", "img"}
      /\ ~(markup[i].tag = "link" /\ "rel" \in DOMAIN markup[i].attrs
           /\ markup[i].attrs["rel"] = RelStylesheet)
      /\ (markup[i].tag = "svg" =>
            i < Len(markup) /\ markup[i + 1] = Close("svg"))

\* The call ran as one without removeSelector and targetSelector does.
RanWithoutSelectors ==
  /\ rootContent = "document"
  /\ ~bewareTargetContentDoesNotExist
  /\ cleanedDom \in {CleanDom(inlinedDom, NoSelector, removeComments).nodes :
                       removeComments \in BOOLEAN}

\* C9: the working markup handed to the renderer is sanitized, for every
\* input and option combination, and <p>Hello</p><script>evil()</script>
\* in text format, without selectors, yields exactly "Hello".
C9_WorkingMarkupSanitized ==
  /\ pc \in {"extracted", "rendered", "done"} => IsSanitized(mainContent)
  /\ (pc = "done" /\ html = ItemPara \o ItemScript /\ format = "text"
       /\ RanWithoutSelectors
        => result.content = TextHello)

C9_Witness ==
  /\ pc = "done"
  /\ html = ItemPara \o ItemScript
  /\ format = "text"
  /\ RanWithoutSelectors
  /\ result.content = TextHello

\* C10: Readability is called exactly when the content was not narrowed; its
\* non-empty content is the working markup, the body markup otherwise; after
\* narrowing the working markup is the synthetic container's.
C10_MainContentSelection ==
  /\ pc \in {"start", "parsed", "shadow", "iframes", "links", "cleaned", "targeted"}
       => readabilityCalls = 0
  /\ pc \in {"extracted", "rendered", "done"} =>
       IF rootContent = "document"
       THEN /\ readabilityCalls = 1
            /\ mainContent =
                 (IF ~readabilityResult.isNull /\ Len(readabilityResult.content) > 0
                  THEN readabilityResult.content
                  ELSE InnerHTML(cleanedDom, BodyId(cleanedDom)))
       ELSE /\ readabilityCalls = 0
            /\ mainContent = InnerHTML(selectedDoc, BodyId(selectedDoc))

C10_Witness ==
  /\ pc = "extracted"
  /\ rootContent = "document"
  /\ readabilityCalls = 1
  /\ ~readabilityResult.isNull
  /\ Len(readabilityResult.content) = 0
  /\ Len(mainContent) > 0

\* ------------------------------------------------------------------------
\* C11: when the targetSelector block finds a match, allNodes holds every
\* element of the sanitized document that matches one of the given
\* selectors, each once, ordered by the first selector that matches it
\* and by document order within a selector; and the children of the body
\* of selectedDoc are these nodes in that order, each followed by one
\* '\n\n' text node, also when one collected node was inside another.
\* ------------------------------------------------------------------------
\* Position of the first selector of sels that the node id matches.
FirstSelector(nodes, sels, id) ==
  CHOOSE k \in 1..Len(sels) :
    /\ MatchesSelector(NodeById(nodes, id), sels[k])
    /\ \A m \in 1..(k - 1) : ~MatchesSelector(NodeById(nodes, id), sels[m])

PositionIn(nodes, id) ==
  CHOOSE i \in 1..Len(nodes) : nodes[i].id = id

IsUnionInOrder(nodes, sels, collected) ==
  /\ {collected[i] : i \in 1..Len(collected)} =
       {nodes[i].id : i \in {j \in 1..Len(nodes) :
                               \E k \in 1..Len(sels) :
                                 MatchesSelector(nodes[j], sels[k])}}
  /\ \A i, j \in 1..Len(collected) :
       i < j =>
         /\ collected[i] # collected[j]
         /\ \/ FirstSelector(nodes, sels, collected[i])
                 < FirstSelector(nodes, sels, collected[j])
            \/ /\ FirstSelector(nodes, sels, collected[i])
                   = FirstSelector(nodes, sels, collected[j])
               /\ PositionIn(nodes, collected[i]) < PositionIn(nodes, collected[j])

IsContainerOf(container, collected) ==
  LET Alternates(kids) ==
        /\ Len(kids) = 2 * Len(collected)
        /\ \A i \in 1..Len(collected) :
             /\ kids[2 * i - 1].id = collected[i]
             /\ kids[2 * i].kind = "text"
             /\ kids[2 * i].data = ParagraphBreak
  IN Alternates(Children(container, BodyId(container)))

\* The step just taken is the targetSelector block run with ts.
RanTargetSelector(ts) ==
  /\ pc = "cleaned" /\ pc' = "targeted" /\ rootContent' = "selectedDoc"
  /\ IsTruthy(ts)
  /\ ProcessTargetSelector(dom, ts).ok
  /\ allNodes' = ProcessTargetSelector(dom, ts).allNodes

C11_CollectedUnion ==
  [][\A ts \in TargetSelectors :
       RanTargetSelector(ts) =>
         /\ IsUnionInOrder(dom, ts.selectors, allNodes')
         /\ IsContainerOf(selectedDoc', allNodes')]_vars

\* A selected container built from a node matched by two of the selectors
\* and a node collected before the element that contained it.
C11_Witness ==
  /\ pc = "targeted"
  /\ rootContent = "selectedDoc"
  /\ \E i, j \in 1..Len(allNodes) :
       i < j /\ HasAncestor(cleanedDom, allNodes[i], allNodes[j])
  /\ \E ts \in TargetSelectors :
       /\ IsTruthy(ts)
       /\ ProcessTargetSelector(cleanedDom, ts).ok
       /\ ProcessTargetSelector(cleanedDom, ts).allNodes = allNodes
       /\ \E i \in 1..Len(allNodes), k, m \in 1..Len(ts.selectors) :
            /\ k # m
            /\ MatchesSelector(NodeById(cleanedDom, allNodes[i]), ts.selectors[k])
            /\ MatchesSelector(NodeById(cleanedDom, allNodes[i]), ts.selectors[m])

\* ------------------------------------------------------------------------
\* C12: for non-empty content without a newline the delimiter of the
\* 'improved-code' rule is a run of backticks exactly one longer than the
\* longest run of backticks in the content; for content with a newline it
\* is the triple-backtick fence.
\* ------------------------------------------------------------------------
LongestBacktickRun(content) ==
  IF BacktickRuns(content) = {} THEN 0
  ELSE CHOOSE n \in BacktickRuns(content) : \A m \in BacktickRuns(content) : m <= n

C12_DelimiterPastLongestRun ==
  codePc \in {"delimited", "returned"} /\ Len(codeContent) > 0 =>
    IF \E i \in 1..Len(codeContent) : codeContent[i] = "\n"
    THEN codeDelimiter = Backticks(3)
    ELSE codeDelimiter = Backticks(LongestBacktickRun(codeContent) + 1)

\* ------------------------------------------------------------------------
\* C13: with withIframe not disabled, every frame or iframe element that
\* carries a non-empty data-frame-content attribute, with or without a src
\* attribute, has its children replaced by that content parsed as markup,
\* with no script or style element left below it; with withIframe false
\* the children of every frame element stay as they were.
\* ------------------------------------------------------------------------
\* Kind, tag and text of the nodes below root, in document order.
Shape(nodes, root) ==
  LET Project(below) ==
        [i \in 1..Len(below) |-> <<below[i].kind, below[i].tag, below[i].data>>]
  IN Project(SelectSeq(nodes, LAMBDA n : HasAncestor(nodes, n.id, root)))

\* The shape of frame content once parsed and rid of script and style.
ContentShape(frameContent) ==
  LET Cleaned(parsed) ==
        Shape(RemoveAll(parsed, Matching(parsed, 0, <<"script", "style">>)),
              BodyId(parsed))
  IN Cleaned(parseHTML(frameContent, 1))

FramesOf(nodes) ==
  SelectSeq(nodes, LAMBDA n : n.kind = "element" /\ n.tag \in {"iframe", "frame"})

\* The step just taken is the iframe block run with this withIframe.
RanIframes(withIframe) ==
  /\ pc = "shadow" /\ pc' = "iframes"
  /\ dom' = ProcessIframes(dom, withIframe, baseUrl)

C13_FramesInlined ==
  [][\A withIframe \in BOOLEAN :
       RanIframes(withIframe) =>
         \A k \in 1..Len(FramesOf(dom)) :
           LET frame == FramesOf(dom)[k]
           IN IF withIframe
              THEN Len(GetAttr(frame, "data-frame-content")) > 0 =>
                     /\ Shape(dom', frame.id)
                          = ContentShape(GetAttr(frame, "data-frame-content"))
                     /\ \A i \in 1..Len(dom') :
                          HasAncestor(dom', dom'[i].id, frame.id) =>
                            dom'[i].tag \notin {"script", "style"}
              ELSE Shape(dom', frame.id) = Shape(dom, frame.id)]_vars

\* ------------------------------------------------------------------------
\* C14: in markdown mode every table element of the document the
\* serializer renders carries the rows property listing its tr
\* descendants: the preparation tags the tree that is rendered, not only
\* a copy of it.
\* ------------------------------------------------------------------------
C14_RenderedTablesTagged ==
  pc \in {"rendered", "done"} /\ format = "markdown" =>
    \A i \in 1..Len(turndownDom) :
      turndownDom[i].kind = "element" /\ turndownDom[i].tag = "table" =>
        \E k \in 1..Len(preparedTables) :
          /\ preparedTables[k].table = turndownDom[i].id
          /\ preparedTables[k].rows
               = Matching(turndownDom, turndownDom[i].id, <<"tr">>)

\* ------------------------------------------------------------------------
\* C15: after the sanitizer an element of the document carries a style
\* attribute if and only if it carried one before and that value, compared
\* case-insensitively, begins with "display: none"; a kept value is
\* unchanged.
\* ------------------------------------------------------------------------
KeepsStyle(n) ==
  HasAttr(n, "style") /\ StartsWith(ToLowerCase(n.attrs["style"]), DisplayNone)

C16_OrderInsensitive ==
  sanPc = "run" /\ sanRemaining = {} =>
    sanTree = CleanDom(sanInput, sanSelector, sanComments).nodes

\* ------------------------------------------------------------------------
\* C17: cleanRedundantEmptyLines only deletes blank lines: the significant
\* lines of the output are the significant lines of the input, in the same
\* order and with the same text, and the lines of the output are a
\* subsequence of the lines of the input.
\* ------------------------------------------------------------------------
\* The lines of text as the normalizer delimits them; the empty text has
\* no line.
LinesOf(text) ==
  IF Len(text) = 0 THEN <<>> ELSE SplitLines(text)

SignificantLines(text) ==
  SelectSeq(LinesOf(text), IsSignificant)

\* TRUE when sub is what is left of full once some elements are taken out.
RECURSIVE IsSubsequence(_, _)
IsSubsequence(sub, full) ==
  IF Len(sub) = 0 THEN TRUE
  ELSE IF Len(full) = 0 THEN FALSE
  ELSE IF Head(sub) = Head(full) THEN IsSubsequence(Tail(sub), Tail(full))
  ELSE IsSubsequence(sub, Tail(full))

C17_OnlyBlankLinesDeleted ==
  cPc \in {"once", "twice"} =>
    /\ SignificantLines(cOnce) = SignificantLines(cText)
    /\ IsSubsequence(LinesOf(cOnce), LinesOf(cText))

====
